---- MODULE Spec2Model ----
(***************************************************************************)
(* Model of the Thinkerbell semantic classification engine                 *)
(* (src/backend_server.py): the SemanticBrain object, its initialization,  *)
(* the similarity and keyword classifiers, the sentence splitter and the   *)
(* analytics report.                                                       *)
(*                                                                         *)
(* Numbers.  Thresholds and rounded statistics are integers in thousandths *)
(* (0.7 is 700), percentages in tenths of a percent.  Similarities and     *)
(* confidences are floats: a pair of the thousandths and of the error the  *)
(* double arithmetic of the code left (see Floats).  Embeddings are        *)
(* integer vectors of Euclidean norm 5 (or the zero vector), so that every *)
(* cosine similarity is dot/25, a whole number of thousandths but for that *)
(* error.                                                                  *)
(*                                                                         *)
(* Scheduling.  Every coroutine of the class awaits only coroutines of     *)
(* the class, none of which suspends (model.encode is a blocking call), so *)
(* under asyncio each call of initialize() or classify_text() runs to      *)
(* completion before another starts: Spec and TextSpec have one action per *)
(* call.  An await is nevertheless where the event loop may run another    *)
(* task, and classify_text awaits _classify_sentence once per sentence:    *)
(* ConcurrentSpec takes classify_text apart at these awaits and lets the   *)
(* calls in flight take their turns in any order, the order of Spec (all   *)
(* the turns of a call in a row) among them.                               *)
(***************************************************************************)
EXTENDS Integers, Sequences, FiniteSets, TLC

VARIABLES
    version,               \* sys.version_info.minor: the interpreter is Python 3.version
    HAS_ML,                \* module flag: the ML imports succeeded
    encoder,               \* what the model named by self.model_name computes for a sentence
    model,                 \* self.model: "None" or "SentenceTransformer"
    anchor_embeddings,     \* self.anchor_embeddings: dict, as a sequence of items
    confidence_threshold,  \* self.confidence_threshold
    init_calls,            \* number of initialize() calls made so far
    init_result,           \* what the last initialize() returned: "none", "True", "False"
    anchor_builds,         \* number of times the anchor catalog was built
    request,               \* the call being answered
    response,              \* what that call returned to its caller
    calls,                 \* the classify_text calls suspended at an await
    log                    \* the classify_text calls that have returned

vars == <<version, HAS_ML, encoder, model, anchor_embeddings, confidence_threshold,
          init_calls, init_result, anchor_builds, request, response, calls, log>>

(***************************************************************************)
(* Bounds of the model.                                                    *)
(***************************************************************************)
MaxInitCalls == 2
MaxSentences == 2
MaxPieces == 3
MaxCalls == 2

(***************************************************************************)
(* Program constants.                                                      *)
(***************************************************************************)
DefaultThreshold == 300
NoAnchorConfidence == 500
ProviderErrorConfidence == 300
WisdomConfidence == 700
NudgeConfidence == 600
SpellConfidence == 600
HunchConfidence == 400
HighConfidence == 700
MinLength == 10

Categories == <<"Hunch", "Wisdom", "Nudge", "Spell">>

CategorySet == {Categories[i] : i \in 1..Len(Categories)}

(***************************************************************************)
(* Strings.  A Python str is the sequence of its code points; Str(s) is    *)
(* the str that the literal s denotes, for s of the characters of ASCII    *)
(* that a literal can hold.                                                *)
(***************************************************************************)
\* The characters U+0020 to U+005F and U+0061 to U+007E.
UpToUnderscore ==
    " !\"#$%&'()*+,-./0123456789:;<=>?@ABCDEFGHIJKLMNOPQRSTUVWXYZ[\\]^_"

FromSmallA == "abcdefghijklmnopqrstuvwxyz{|}~"

IndexIn(s, c) == CHOOSE i \in 1..Len(s) : SubSeq(s, i, i) = c

ord(c) ==
    IF c = "\t" THEN 9
    ELSE IF c = "\n" THEN 10
    ELSE IF c = "\f" THEN 12
    ELSE IF c = "\r" THEN 13
    ELSE IF \E i \in 1..Len(FromSmallA) : SubSeq(FromSmallA, i, i) = c
    THEN 96 + IndexIn(FromSmallA, c)
    ELSE 31 + IndexIn(UpToUnderscore, c)

RECURSIVE Str(_)
Str(s) == IF s = "" THEN <<>> ELSE <<ord(SubSeq(s, 1, 1))>> \o Str(SubSeq(s, 2, Len(s)))

\* The characters Python's \s and str.strip() take for whitespace.
Whitespace ==
    {9, 10, 11, 12, 13, 28, 29, 30, 31, 32, 133, 160, 5760}
        \cup (8192..8202) \cup {8232, 8233, 8239, 8287, 12288}

\* . ! ?
Punctuation == {46, 33, 63}

(***************************************************************************)
(* str.lower().  The case data are those of the interpreter's Unicode      *)
(* database, which changes with the interpreter: an entry of the tables    *)
(* below ends with the first minor version of Python 3 whose database      *)
(* gives its characters the mapping or the property (8 for Unicode 12.1    *)
(* and before, 9 for Unicode 13, 11 for Unicode 14, 12 for Unicode 15).    *)
(***************************************************************************)
\* <<first, last, step, delta, since>>: the characters first, first + step,
\* ..., last have the lowercase character delta further on.
LowerCaseRuns ==
    {<<65, 90, 1, 32, 8>>, <<192, 214, 1, 32, 8>>, <<216, 222, 1, 32, 8>>,
     <<256, 302, 2, 1, 8>>, <<306, 310, 2, 1, 8>>, <<313, 327, 2, 1, 8>>,
     <<330, 374, 2, 1, 8>>, <<376, 376, 1, -121, 8>>, <<377, 381, 2, 1, 8>>,
     <<385, 385, 1, 210, 8>>, <<386, 388, 2, 1, 8>>, <<390, 390, 1, 206, 8>>,
     <<391, 391, 1, 1, 8>>, <<393, 394, 1, 205, 8>>, <<395, 395, 1, 1, 8>>,
     <<398, 398, 1, 79, 8>>, <<399, 399, 1, 202, 8>>, <<400, 400, 1, 203, 8>>,
     <<401, 401, 1, 1, 8>>, <<403, 403, 1, 205, 8>>, <<404, 404, 1, 207, 8>>,
     <<406, 406, 1, 211, 8>>, <<407, 407, 1, 209, 8>>, <<408, 408, 1, 1, 8>>,
     <<412, 412, 1, 211, 8>>, <<413, 413, 1, 213, 8>>, <<415, 415, 1, 214, 8>>,
     <<416, 420, 2, 1, 8>>, <<422, 422, 1, 218, 8>>, <<423, 423, 1, 1, 8>>,
     <<425, 425, 1, 218, 8>>, <<428, 428, 1, 1, 8>>, <<430, 430, 1, 218, 8>>,
     <<431, 431, 1, 1, 8>>, <<433, 434, 1, 217, 8>>, <<435, 437, 2, 1, 8>>,
     <<439, 439, 1, 219, 8>>, <<440, 440, 1, 1, 8>>, <<444, 444, 1, 1, 8>>,
     <<452, 452, 1, 2, 8>>, <<453, 453, 1, 1, 8>>, <<455, 455, 1, 2, 8>>,
     <<456, 456, 1, 1, 8>>, <<458, 458, 1, 2, 8>>, <<459, 475, 2, 1, 8>>,
     <<478, 494, 2, 1, 8>>, <<497, 497, 1, 2, 8>>, <<498, 500, 2, 1, 8>>,
     <<502, 502, 1, -97, 8>>, <<503, 503, 1, -56, 8>>, <<504, 542, 2, 1, 8>>,
     <<544, 544, 1, -130, 8>>, <<546, 562, 2, 1, 8>>, <<570, 570, 1, 10795, 8>>,
     <<571, 571, 1, 1, 8>>, <<573, 573, 1, -163, 8>>, <<574, 574, 1, 10792, 8>>,
     <<577, 577, 1, 1, 8>>, <<579, 579, 1, -195, 8>>, <<580, 580, 1, 69, 8>>,
     <<581, 581, 1, 71, 8>>, <<582, 590, 2, 1, 8>>, <<880, 882, 2, 1, 8>>,
     <<886, 886, 1, 1, 8>>, <<895, 895, 1, 116, 8>>, <<902, 902, 1, 38, 8>>,
     <<904, 906, 1, 37, 8>>, <<908, 908, 1, 64, 8>>, <<910, 911, 1, 63, 8>>,
     <<913, 929, 1, 32, 8>>, <<931, 939, 1, 32, 8>>, <<975, 975, 1, 8, 8>>,
     <<984, 1006, 2, 1, 8>>, <<1012, 1012, 1, -60, 8>>, <<1015, 1015, 1, 1, 8>>,
     <<1017, 1017, 1, -7, 8>>, <<1018, 1018, 1, 1, 8>>, <<1021, 1023, 1, -130, 8>>,
     <<1024, 1039, 1, 80, 8>>, <<1040, 1071, 1, 32, 8>>, <<1120, 1152, 2, 1, 8>>,
     <<1162, 1214, 2, 1, 8>>, <<1216, 1216, 1, 15, 8>>, <<1217, 1229, 2, 1, 8>>,
     <<1232, 1326, 2, 1, 8>>, <<1329, 1366, 1, 48, 8>>, <<4256, 4293, 1, 7264, 8>>,
     <<4295, 4295, 1, 7264, 8>>, <<4301, 4301, 1, 7264, 8>>, <<5024, 5103, 1, 38864, 8>>,
     <<5104, 5109, 1, 8, 8>>, <<7312, 7354, 1, -3008, 8>>, <<7357, 7359, 1, -3008, 8>>,
     <<7680, 7828, 2, 1, 8>>, <<7838, 7838, 1, -7615, 8>>, <<7840, 7934, 2, 1, 8>>,
     <<7944, 7951, 1, -8, 8>>, <<7960, 7965, 1, -8, 8>>, <<7976, 7983, 1, -8, 8>>,
     <<7992, 7999, 1, -8, 8>>, <<8008, 8013, 1, -8, 8>>, <<8025, 8031, 2, -8, 8>>,
     <<8040, 8047, 1, -8, 8>>, <<8072, 8079, 1, -8, 8>>, <<8088, 8095, 1, -8, 8>>,
     <<8104, 8111, 1, -8, 8>>, <<8120, 8121, 1, -8, 8>>, <<8122, 8123, 1, -74, 8>>,
     <<8124, 8124, 1, -9, 8>>, <<8136, 8139, 1, -86, 8>>, <<8140, 8140, 1, -9, 8>>,
     <<8152, 8153, 1, -8, 8>>, <<8154, 8155, 1, -100, 8>>, <<8168, 8169, 1, -8, 8>>,
     <<8170, 8171, 1, -112, 8>>, <<8172, 8172, 1, -7, 8>>, <<8184, 8185, 1, -128, 8>>,
     <<8186, 8187, 1, -126, 8>>, <<8188, 8188, 1, -9, 8>>, <<8486, 8486, 1, -7517, 8>>,
     <<8490, 8490, 1, -8383, 8>>, <<8491, 8491, 1, -8262, 8>>, <<8498, 8498, 1, 28, 8>>,
     <<8544, 8559, 1, 16, 8>>, <<8579, 8579, 1, 1, 8>>, <<9398, 9423, 1, 26, 8>>,
     <<11264, 11310, 1, 48, 8>>, <<11311, 11311, 1, 48, 11>>, <<11360, 11360, 1, 1, 8>>,
     <<11362, 11362, 1, -10743, 8>>, <<11363, 11363, 1, -3814, 8>>, <<11364, 11364, 1, -10727, 8>>,
     <<11367, 11371, 2, 1, 8>>, <<11373, 11373, 1, -10780, 8>>, <<11374, 11374, 1, -10749, 8>>,
     <<11375, 11375, 1, -10783, 8>>, <<11376, 11376, 1, -10782, 8>>, <<11378, 11378, 1, 1, 8>>,
     <<11381, 11381, 1, 1, 8>>, <<11390, 11391, 1, -10815, 8>>, <<11392, 11490, 2, 1, 8>>,
     <<11499, 11501, 2, 1, 8>>, <<11506, 11506, 1, 1, 8>>, <<42560, 42604, 2, 1, 8>>,
     <<42624, 42650, 2, 1, 8>>, <<42786, 42798, 2, 1, 8>>, <<42802, 42862, 2, 1, 8>>,
     <<42873, 42875, 2, 1, 8>>, <<42877, 42877, 1, -35332, 8>>, <<42878, 42886, 2, 1, 8>>,
     <<42891, 42891, 1, 1, 8>>, <<42893, 42893, 1, -42280, 8>>, <<42896, 42898, 2, 1, 8>>,
     <<42902, 42920, 2, 1, 8>>, <<42922, 42922, 1, -42308, 8>>, <<42923, 42923, 1, -42319, 8>>,
     <<42924, 42924, 1, -42315, 8>>, <<42925, 42925, 1, -42305, 8>>, <<42926, 42926, 1, -42308, 8>>,
     <<42928, 42928, 1, -42258, 8>>, <<42929, 42929, 1, -42282, 8>>, <<42930, 42930, 1, -42261, 8>>,
     <<42931, 42931, 1, 928, 8>>, <<42932, 42942, 2, 1, 8>>, <<42944, 42944, 1, 1, 11>>,
     <<42946, 42946, 1, 1, 8>>, <<42948, 42948, 1, -48, 8>>, <<42949, 42949, 1, -42307, 8>>,
     <<42950, 42950, 1, -35384, 8>>, <<42951, 42953, 2, 1, 9>>, <<42960, 42960, 1, 1, 11>>,
     <<42966, 42968, 2, 1, 11>>, <<42997, 42997, 1, 1, 9>>, <<65313, 65338, 1, 32, 8>>,
     <<66560, 66599, 1, 40, 8>>, <<66736, 66771, 1, 40, 8>>, <<66928, 66938, 1, 39, 11>>,
     <<66940, 66954, 1, 39, 11>>, <<66956, 66962, 1, 39, 11>>, <<66964, 66965, 1, 39, 11>>,
     <<68736, 68786, 1, 64, 8>>, <<71840, 71871, 1, 32, 8>>, <<93760, 93791, 1, 32, 8>>,
     <<125184, 125217, 1, 34, 8>>}

\* <<first, last, since>>: characters with the property Case_Ignorable.
CaseIgnorableRanges ==
    {<<39, 39, 8>>, <<46, 46, 8>>, <<58, 58, 8>>, <<94, 94, 8>>,
     <<96, 96, 8>>, <<168, 168, 8>>, <<173, 173, 8>>, <<175, 175, 8>>,
     <<180, 180, 8>>, <<183, 184, 8>>, <<688, 879, 8>>, <<884, 885, 8>>,
     <<890, 890, 8>>, <<900, 901, 8>>, <<903, 903, 8>>, <<1155, 1161, 8>>,
     <<1369, 1369, 8>>, <<1375, 1375, 9>>, <<1425, 1469, 8>>, <<1471, 1471, 8>>,
     <<1473, 1474, 8>>, <<1476, 1477, 8>>, <<1479, 1479, 8>>, <<1524, 1524, 8>>,
     <<1536, 1541, 8>>, <<1552, 1562, 8>>, <<1564, 1564, 8>>, <<1600, 1600, 8>>,
     <<1611, 1631, 8>>, <<1648, 1648, 8>>, <<1750, 1757, 8>>, <<1759, 1768, 8>>,
     <<1770, 1773, 8>>, <<1807, 1807, 8>>, <<1809, 1809, 8>>, <<1840, 1866, 8>>,
     <<1958, 1968, 8>>, <<2027, 2037, 8>>, <<2042, 2042, 8>>, <<2045, 2045, 8>>,
     <<2070, 2093, 8>>, <<2137, 2139, 8>>, <<2184, 2184, 11>>, <<2192, 2193, 11>>,
     <<2200, 2207, 11>>, <<2249, 2258, 11>>, <<2259, 2306, 8>>, <<2362, 2362, 8>>,
     <<2364, 2364, 8>>, <<2369, 2376, 8>>, <<2381, 2381, 8>>, <<2385, 2391, 8>>,
     <<2402, 2403, 8>>, <<2417, 2417, 8>>, <<2433, 2433, 8>>, <<2492, 2492, 8>>,
     <<2497, 2500, 8>>, <<2509, 2509, 8>>, <<2530, 2531, 8>>, <<2558, 2558, 8>>,
     <<2561, 2562, 8>>, <<2620, 2620, 8>>, <<2625, 2626, 8>>, <<2631, 2632, 8>>,
     <<2635, 2637, 8>>, <<2641, 2641, 8>>, <<2672, 2673, 8>>, <<2677, 2677, 8>>,
     <<2689, 2690, 8>>, <<2748, 2748, 8>>, <<2753, 2757, 8>>, <<2759, 2760, 8>>,
     <<2765, 2765, 8>>, <<2786, 2787, 8>>, <<2810, 2815, 8>>, <<2817, 2817, 8>>,
     <<2876, 2876, 8>>, <<2879, 2879, 8>>, <<2881, 2884, 8>>, <<2893, 2893, 8>>,
     <<2901, 2901, 9>>, <<2902, 2902, 8>>, <<2914, 2915, 8>>, <<2946, 2946, 8>>,
     <<3008, 3008, 8>>, <<3021, 3021, 8>>, <<3072, 3072, 8>>, <<3076, 3076, 8>>,
     <<3132, 3132, 11>>, <<3134, 3136, 8>>, <<3142, 3144, 8>>, <<3146, 3149, 8>>,
     <<3157, 3158, 8>>, <<3170, 3171, 8>>, <<3201, 3201, 8>>, <<3260, 3260, 8>>,
     <<3263, 3263, 8>>, <<3270, 3270, 8>>, <<3276, 3277, 8>>, <<3298, 3299, 8>>,
     <<3328, 3329, 8>>, <<3387, 3388, 8>>, <<3393, 3396, 8>>, <<3405, 3405, 8>>,
     <<3426, 3427, 8>>, <<3457, 3457, 9>>, <<3530, 3530, 8>>, <<3538, 3540, 8>>,
     <<3542, 3542, 8>>, <<3633, 3633, 8>>, <<3636, 3642, 8>>, <<3654, 3662, 8>>,
     <<3761, 3761, 8>>, <<3764, 3772, 8>>, <<3782, 3782, 8>>, <<3784, 3789, 8>>,
     <<3790, 3790, 12>>, <<3864, 3865, 8>>, <<3893, 3893, 8>>, <<3895, 3895, 8>>,
     <<3897, 3897, 8>>, <<3953, 3966, 8>>, <<3968, 3972, 8>>, <<3974, 3975, 8>>,
     <<3981, 3991, 8>>, <<3993, 4028, 8>>, <<4038, 4038, 8>>, <<4141, 4144, 8>>,
     <<4146, 4151, 8>>, <<4153, 4154, 8>>, <<4157, 4158, 8>>, <<4184, 4185, 8>>,
     <<4190, 4192, 8>>, <<4209, 4212, 8>>, <<4226, 4226, 8>>, <<4229, 4230, 8>>,
     <<4237, 4237, 8>>, <<4253, 4253, 8>>, <<4348, 4348, 8>>, <<4957, 4959, 8>>,
     <<5906, 5908, 8>>, <<5938, 5939, 8>>, <<5970, 5971, 8>>, <<6002, 6003, 8>>,
     <<6068, 6069, 8>>, <<6071, 6077, 8>>, <<6086, 6086, 8>>, <<6089, 6099, 8>>,
     <<6103, 6103, 8>>, <<6109, 6109, 8>>, <<6155, 6158, 8>>, <<6159, 6159, 11>>,
     <<6211, 6211, 8>>, <<6277, 6278, 8>>, <<6313, 6313, 8>>, <<6432, 6434, 8>>,
     <<6439, 6440, 8>>, <<6450, 6450, 8>>, <<6457, 6459, 8>>, <<6679, 6680, 8>>,
     <<6683, 6683, 8>>, <<6742, 6742, 8>>, <<6744, 6750, 8>>, <<6752, 6752, 8>>,
     <<6754, 6754, 8>>, <<6757, 6764, 8>>, <<6771, 6780, 8>>, <<6783, 6783, 8>>,
     <<6823, 6823, 8>>, <<6832, 6846, 8>>, <<6847, 6848, 9>>, <<6849, 6862, 11>>,
     <<6912, 6915, 8>>, <<6964, 6964, 8>>, <<6966, 6970, 8>>, <<6972, 6972, 8>>,
     <<6978, 6978, 8>>, <<7019, 7027, 8>>, <<7040, 7041, 8>>, <<7074, 7077, 8>>,
     <<7080, 7081, 8>>, <<7083, 7085, 8>>, <<7142, 7142, 8>>, <<7144, 7145, 8>>,
     <<7149, 7149, 8>>, <<7151, 7153, 8>>, <<7212, 7219, 8>>, <<7222, 7223, 8>>,
     <<7288, 7293, 8>>, <<7376, 7378, 8>>, <<7380, 7392, 8>>, <<7394, 7400, 8>>,
     <<7405, 7405, 8>>, <<7412, 7412, 8>>, <<7416, 7417, 8>>, <<7468, 7530, 8>>,
     <<7544, 7544, 8>>, <<7579, 7673, 8>>, <<7674, 7674, 11>>, <<7675, 7679, 8>>,
     <<8125, 8125, 8>>, <<8127, 8129, 8>>, <<8141, 8143, 8>>, <<8157, 8159, 8>>,
     <<8173, 8175, 8>>, <<8189, 8190, 8>>, <<8203, 8207, 8>>, <<8216, 8217, 8>>,
     <<8228, 8228, 8>>, <<8231, 8231, 8>>, <<8234, 8238, 8>>, <<8288, 8292, 8>>,
     <<8294, 8303, 8>>, <<8305, 8305, 8>>, <<8319, 8319, 8>>, <<8336, 8348, 8>>,
     <<8400, 8432, 8>>, <<11388, 11389, 8>>, <<11503, 11505, 8>>, <<11631, 11631, 8>>,
     <<11647, 11647, 8>>, <<11744, 11775, 8>>, <<11823, 11823, 8>>, <<12293, 12293, 8>>,
     <<12330, 12333, 8>>, <<12337, 12341, 8>>, <<12347, 12347, 8>>, <<12441, 12446, 8>>,
     <<12540, 12542, 8>>, <<40981, 40981, 8>>, <<42232, 42237, 8>>, <<42508, 42508, 8>>,
     <<42607, 42610, 8>>, <<42612, 42621, 8>>, <<42623, 42623, 8>>, <<42652, 42655, 8>>,
     <<42736, 42737, 8>>, <<42752, 42785, 8>>, <<42864, 42864, 8>>, <<42888, 42890, 8>>,
     <<42994, 42996, 11>>, <<43000, 43001, 8>>, <<43010, 43010, 8>>, <<43014, 43014, 8>>,
     <<43019, 43019, 8>>, <<43045, 43046, 8>>, <<43052, 43052, 9>>, <<43204, 43205, 8>>,
     <<43232, 43249, 8>>, <<43263, 43263, 8>>, <<43302, 43309, 8>>, <<43335, 43345, 8>>,
     <<43392, 43394, 8>>, <<43443, 43443, 8>>, <<43446, 43449, 8>>, <<43452, 43453, 8>>,
     <<43471, 43471, 8>>, <<43493, 43494, 8>>, <<43561, 43566, 8>>, <<43569, 43570, 8>>,
     <<43573, 43574, 8>>, <<43587, 43587, 8>>, <<43596, 43596, 8>>, <<43632, 43632, 8>>,
     <<43644, 43644, 8>>, <<43696, 43696, 8>>, <<43698, 43700, 8>>, <<43703, 43704, 8>>,
     <<43710, 43711, 8>>, <<43713, 43713, 8>>, <<43741, 43741, 8>>, <<43756, 43757, 8>>,
     <<43763, 43764, 8>>, <<43766, 43766, 8>>, <<43867, 43871, 8>>, <<43881, 43883, 9>>,
     <<44005, 44005, 8>>, <<44008, 44008, 8>>, <<44013, 44013, 8>>, <<64286, 64286, 8>>,
     <<64434, 64449, 8>>, <<64450, 64450, 11>>, <<65024, 65039, 8>>, <<65043, 65043, 8>>,
     <<65056, 65071, 8>>, <<65106, 65106, 8>>, <<65109, 65109, 8>>, <<65279, 65279, 8>>,
     <<65287, 65287, 8>>, <<65294, 65294, 8>>, <<65306, 65306, 8>>, <<65342, 65342, 8>>,
     <<65344, 65344, 8>>, <<65392, 65392, 8>>, <<65438, 65439, 8>>, <<65507, 65507, 8>>,
     <<65529, 65531, 8>>, <<66045, 66045, 8>>, <<66272, 66272, 8>>, <<66422, 66426, 8>>,
     <<67456, 67461, 11>>, <<67463, 67504, 11>>, <<67506, 67514, 11>>, <<68097, 68099, 8>>,
     <<68101, 68102, 8>>, <<68108, 68111, 8>>, <<68152, 68154, 8>>, <<68159, 68159, 8>>,
     <<68325, 68326, 8>>, <<68900, 68903, 8>>, <<69291, 69292, 9>>, <<69373, 69375, 12>>,
     <<69446, 69456, 8>>, <<69506, 69509, 11>>, <<69633, 69633, 8>>, <<69688, 69702, 8>>,
     <<69744, 69744, 11>>, <<69747, 69748, 11>>, <<69759, 69761, 8>>, <<69811, 69814, 8>>,
     <<69817, 69818, 8>>, <<69821, 69821, 8>>, <<69826, 69826, 11>>, <<69837, 69837, 8>>,
     <<69888, 69890, 8>>, <<69927, 69931, 8>>, <<69933, 69940, 8>>, <<70003, 70003, 8>>,
     <<70016, 70017, 8>>, <<70070, 70078, 8>>, <<70089, 70092, 8>>, <<70095, 70095, 9>>,
     <<70191, 70193, 8>>, <<70196, 70196, 8>>, <<70198, 70199, 8>>, <<70206, 70206, 8>>,
     <<70209, 70209, 12>>, <<70367, 70367, 8>>, <<70371, 70378, 8>>, <<70400, 70401, 8>>,
     <<70459, 70460, 8>>, <<70464, 70464, 8>>, <<70502, 70508, 8>>, <<70512, 70516, 8>>,
     <<70712, 70719, 8>>, <<70722, 70724, 8>>, <<70726, 70726, 8>>, <<70750, 70750, 8>>,
     <<70835, 70840, 8>>, <<70842, 70842, 8>>, <<70847, 70848, 8>>, <<70850, 70851, 8>>,
     <<71090, 71093, 8>>, <<71100, 71101, 8>>, <<71103, 71104, 8>>, <<71132, 71133, 8>>,
     <<71219, 71226, 8>>, <<71229, 71229, 8>>, <<71231, 71232, 8>>, <<71339, 71339, 8>>,
     <<71341, 71341, 8>>, <<71344, 71349, 8>>, <<71351, 71351, 8>>, <<71453, 71455, 8>>,
     <<71458, 71461, 8>>, <<71463, 71467, 8>>, <<71727, 71735, 8>>, <<71737, 71738, 8>>,
     <<71995, 71996, 9>>, <<71998, 71998, 9>>, <<72003, 72003, 9>>, <<72148, 72151, 8>>,
     <<72154, 72155, 8>>, <<72160, 72160, 8>>, <<72193, 72202, 8>>, <<72243, 72248, 8>>,
     <<72251, 72254, 8>>, <<72263, 72263, 8>>, <<72273, 72278, 8>>, <<72281, 72283, 8>>,
     <<72330, 72342, 8>>, <<72344, 72345, 8>>, <<72752, 72758, 8>>, <<72760, 72765, 8>>,
     <<72767, 72767, 8>>, <<72850, 72871, 8>>, <<72874, 72880, 8>>, <<72882, 72883, 8>>,
     <<72885, 72886, 8>>, <<73009, 73014, 8>>, <<73018, 73018, 8>>, <<73020, 73021, 8>>,
     <<73023, 73029, 8>>, <<73031, 73031, 8>>, <<73104, 73105, 8>>, <<73109, 73109, 8>>,
     <<73111, 73111, 8>>, <<73459, 73460, 8>>, <<73472, 73473, 12>>, <<73526, 73530, 12>>,
     <<73536, 73536, 12>>, <<73538, 73538, 12>>, <<78896, 78904, 8>>, <<78905, 78912, 12>>,
     <<78919, 78933, 12>>, <<92912, 92916, 8>>, <<92976, 92982, 8>>, <<92992, 92995, 8>>,
     <<94031, 94031, 8>>, <<94095, 94111, 8>>, <<94176, 94177, 8>>, <<94179, 94179, 8>>,
     <<94180, 94180, 9>>, <<110576, 110579, 11>>, <<110581, 110587, 11>>, <<110589, 110590, 11>>,
     <<113821, 113822, 8>>, <<113824, 113827, 8>>, <<118528, 118573, 11>>, <<118576, 118598, 11>>,
     <<119143, 119145, 8>>, <<119155, 119170, 8>>, <<119173, 119179, 8>>, <<119210, 119213, 8>>,
     <<119362, 119364, 8>>, <<121344, 121398, 8>>, <<121403, 121452, 8>>, <<121461, 121461, 8>>,
     <<121476, 121476, 8>>, <<121499, 121503, 8>>, <<121505, 121519, 8>>, <<122880, 122886, 8>>,
     <<122888, 122904, 8>>, <<122907, 122913, 8>>, <<122915, 122916, 8>>, <<122918, 122922, 8>>,
     <<122928, 122989, 12>>, <<123023, 123023, 12>>, <<123184, 123197, 8>>, <<123566, 123566, 11>>,
     <<123628, 123631, 8>>, <<124139, 124143, 12>>, <<125136, 125142, 8>>, <<125252, 125259, 8>>,
     <<127995, 127999, 8>>, <<917505, 917505, 8>>, <<917536, 917631, 8>>, <<917760, 917999, 8>>}

\* <<first, last, since>>: characters with the property Cased.
CasedRanges ==
    {<<65, 90, 8>>, <<97, 122, 8>>, <<170, 170, 8>>, <<181, 181, 8>>,
     <<186, 186, 8>>, <<192, 214, 8>>, <<216, 246, 8>>, <<248, 442, 8>>,
     <<444, 447, 8>>, <<452, 659, 8>>, <<661, 696, 8>>, <<704, 705, 8>>,
     <<736, 740, 8>>, <<837, 837, 8>>, <<880, 883, 8>>, <<886, 887, 8>>,
     <<890, 893, 8>>, <<895, 895, 8>>, <<902, 902, 8>>, <<904, 906, 8>>,
     <<908, 908, 8>>, <<910, 929, 8>>, <<931, 1013, 8>>, <<1015, 1153, 8>>,
     <<1162, 1327, 8>>, <<1329, 1366, 8>>, <<1376, 1416, 8>>, <<4256, 4293, 8>>,
     <<4295, 4295, 8>>, <<4301, 4301, 8>>, <<4304, 4346, 8>>, <<4348, 4348, 12>>,
     <<4349, 4351, 8>>, <<5024, 5109, 8>>, <<5112, 5117, 8>>, <<7296, 7304, 8>>,
     <<7312, 7354, 8>>, <<7357, 7359, 8>>, <<7424, 7615, 8>>, <<7680, 7957, 8>>,
     <<7960, 7965, 8>>, <<7968, 8005, 8>>, <<8008, 8013, 8>>, <<8016, 8023, 8>>,
     <<8025, 8025, 8>>, <<8027, 8027, 8>>, <<8029, 8029, 8>>, <<8031, 8061, 8>>,
     <<8064, 8116, 8>>, <<8118, 8124, 8>>, <<8126, 8126, 8>>, <<8130, 8132, 8>>,
     <<8134, 8140, 8>>, <<8144, 8147, 8>>, <<8150, 8155, 8>>, <<8160, 8172, 8>>,
     <<8178, 8180, 8>>, <<8182, 8188, 8>>, <<8305, 8305, 8>>, <<8319, 8319, 8>>,
     <<8336, 8348, 8>>, <<8450, 8450, 8>>, <<8455, 8455, 8>>, <<8458, 8467, 8>>,
     <<8469, 8469, 8>>, <<8473, 8477, 8>>, <<8484, 8484, 8>>, <<8486, 8486, 8>>,
     <<8488, 8488, 8>>, <<8490, 8493, 8>>, <<8495, 8500, 8>>, <<8505, 8505, 8>>,
     <<8508, 8511, 8>>, <<8517, 8521, 8>>, <<8526, 8526, 8>>, <<8544, 8575, 8>>,
     <<8579, 8580, 8>>, <<9398, 9449, 8>>, <<11264, 11310, 8>>, <<11311, 11311, 11>>,
     <<11312, 11358, 8>>, <<11359, 11359, 11>>, <<11360, 11492, 8>>, <<11499, 11502, 8>>,
     <<11506, 11507, 8>>, <<11520, 11557, 8>>, <<11559, 11559, 8>>, <<11565, 11565, 8>>,
     <<42560, 42605, 8>>, <<42624, 42653, 8>>, <<42786, 42887, 8>>, <<42891, 42894, 8>>,
     <<42896, 42943, 8>>, <<42944, 42945, 11>>, <<42946, 42950, 8>>, <<42951, 42954, 9>>,
     <<42960, 42961, 11>>, <<42963, 42963, 11>>, <<42965, 42969, 11>>, <<42994, 42996, 12>>,
     <<42997, 42998, 9>>, <<43000, 43002, 8>>, <<43824, 43866, 8>>, <<43868, 43879, 8>>,
     <<43880, 43880, 9>>, <<43881, 43881, 12>>, <<43888, 43967, 8>>, <<64256, 64262, 8>>,
     <<64275, 64279, 8>>, <<65313, 65338, 8>>, <<65345, 65370, 8>>, <<66560, 66639, 8>>,
     <<66736, 66771, 8>>, <<66776, 66811, 8>>, <<66928, 66938, 11>>, <<66940, 66954, 11>>,
     <<66956, 66962, 11>>, <<66964, 66965, 11>>, <<66967, 66977, 11>>, <<66979, 66993, 11>>,
     <<66995, 67001, 11>>, <<67003, 67004, 11>>, <<67456, 67456, 11>>, <<67459, 67461, 11>>,
     <<67463, 67504, 11>>, <<67506, 67514, 11>>, <<68736, 68786, 8>>, <<68800, 68850, 8>>,
     <<71840, 71903, 8>>, <<93760, 93823, 8>>, <<119808, 119892, 8>>, <<119894, 119964, 8>>,
     <<119966, 119967, 8>>, <<119970, 119970, 8>>, <<119973, 119974, 8>>, <<119977, 119980, 8>>,
     <<119982, 119993, 8>>, <<119995, 119995, 8>>, <<119997, 120003, 8>>, <<120005, 120069, 8>>,
     <<120071, 120074, 8>>, <<120077, 120084, 8>>, <<120086, 120092, 8>>, <<120094, 120121, 8>>,
     <<120123, 120126, 8>>, <<120128, 120132, 8>>, <<120134, 120134, 8>>, <<120138, 120144, 8>>,
     <<120146, 120485, 8>>, <<120488, 120512, 8>>, <<120514, 120538, 8>>, <<120540, 120570, 8>>,
     <<120572, 120596, 8>>, <<120598, 120628, 8>>, <<120630, 120654, 8>>, <<120656, 120686, 8>>,
     <<120688, 120712, 8>>, <<120714, 120744, 8>>, <<120746, 120770, 8>>, <<120772, 120779, 8>>,
     <<122624, 122633, 11>>, <<122635, 122654, 11>>, <<122661, 122666, 12>>, <<122928, 122989, 12>>,
     <<125184, 125251, 8>>, <<127280, 127305, 8>>, <<127312, 127337, 8>>, <<127344, 127369, 8>>}

InRanges(c, ranges, python) ==
    \E r \in ranges : r[1] <= c /\ c <= r[2] /\ r[3] <= python

\* <<first, last, until>>: characters that had the property Case_Ignorable
\* in the databases of the interpreters before Python 3.until (U+1734, a
\* nonspacing mark up to Unicode 13).
FormerCaseIgnorableRanges == {<<5940, 5940, 11>>}

IsCaseIgnorable(c, python) ==
    \/ InRanges(c, CaseIgnorableRanges, python)
    \/ \E r \in FormerCaseIgnorableRanges : r[1] <= c /\ c <= r[2] /\ python < r[3]

IsCased(c, python) == InRanges(c, CasedRanges, python)

InRun(c, r, python) ==
    r[1] <= c /\ c <= r[2] /\ (c - r[1]) % r[3] = 0 /\ r[5] <= python

\* The lowercase of c: one character but for U+0130, whose lowercase is i
\* followed by the combining dot U+0307.
ToLowerFull(c, python) ==
    IF c = 304 THEN <<105, 775>>
    ELSE IF \E r \in LowerCaseRuns : InRun(c, r, python)
    THEN <<c + (CHOOSE r \in LowerCaseRuns : InRun(c, r, python))[4]>>
    ELSE <<c>>

\* The nearest position before i (step -1) or after i (step 1) whose
\* character is not case-ignorable; 0 or Len(s) + 1 if there is none.
RECURSIVE SkipCaseIgnorable(_, _, _, _)
SkipCaseIgnorable(s, j, step, python) ==
    IF j >= 1 /\ j <= Len(s) /\ IsCaseIgnorable(s[j], python)
    THEN SkipCaseIgnorable(s, j + step, step, python)
    ELSE j

\* The capital sigma at i ends a word: a cased letter comes before it and
\* none after it, case-ignorable characters apart.
final_sigma(s, i, python) ==
    LET j == SkipCaseIgnorable(s, i - 1, -1, python)
        k == SkipCaseIgnorable(s, i + 1, 1, python)
    IN  /\ j >= 1
        /\ IsCased(s[j], python)
        /\ (k > Len(s) \/ ~IsCased(s[k], python))

lower_ucs4(s, i, python) ==
    IF s[i] = 931 THEN <<IF final_sigma(s, i, python) THEN 962 ELSE 963>>
    ELSE ToLowerFull(s[i], python)

RECURSIVE do_lower(_, _, _)
do_lower(s, i, python) ==
    IF i > Len(s) THEN <<>>
    ELSE lower_ucs4(s, i, python) \o do_lower(s, i + 1, python)

\* An ASCII str is lowered character by character: A to Z (65 to 90) only.
AsciiLowerChar(c) == IF c >= 65 /\ c <= 90 THEN c + 32 ELSE c

RECURSIVE ascii_lower(_, _)
ascii_lower(s, i) ==
    IF i > Len(s) THEN <<>> ELSE <<AsciiLowerChar(s[i])>> \o ascii_lower(s, i + 1)

IsAscii(s) == \A i \in 1..Len(s) : s[i] < 128

lower(s, python) == IF IsAscii(s) THEN ascii_lower(s, 1) ELSE do_lower(s, 1, python)

RECURSIVE strip(_)
strip(s) ==
    IF s = <<>> THEN <<>>
    ELSE IF s[1] \in Whitespace THEN strip(SubSeq(s, 2, Len(s)))
    ELSE IF s[Len(s)] \in Whitespace THEN strip(SubSeq(s, 1, Len(s) - 1))
    ELSE s

\* word in s, for Python strings: substring search
Contains(s, word) ==
    \E i \in 1..(Len(s) - Len(word) + 1) : SubSeq(s, i, i + Len(word) - 1) = word

\* any(word in s for word in words)
AnyWordIn(words, s) == \E word \in words : Contains(s, word)

\* The first position at or after i whose character is not in chars.
RECURSIVE RunEnd(_, _, _)
RunEnd(s, i, chars) ==
    IF i <= Len(s) /\ s[i] \in chars THEN RunEnd(s, i + 1, chars) ELSE i

\* re.split(r'[.!?]+\s+', text): start is where the current fragment begins,
\* i the position the leftmost-match scan has reached.  A run of punctuation
\* is a separator only with the whitespace that follows it; a run that no
\* whitespace follows matches nowhere and stays in the fragment.
RECURSIVE ReSplit(_, _, _)
ReSplit(text, start, i) ==
    IF i > Len(text) THEN <<SubSeq(text, start, Len(text))>>
    ELSE IF text[i] \in Punctuation
    THEN LET j == RunEnd(text, i, Punctuation)
             k == RunEnd(text, j, Whitespace)
         IN  IF k > j
             THEN <<SubSeq(text, start, i - 1)>> \o ReSplit(text, k, k)
             ELSE ReSplit(text, start, j)
    ELSE ReSplit(text, start, i + 1)

\* The loop of _split_sentences: strip each fragment, keep the long ones.
RECURSIVE CleanSentences(_)
CleanSentences(sentences) ==
    IF sentences = <<>> THEN <<>>
    ELSE LET sentence == strip(Head(sentences))
         IN  (IF Len(sentence) > MinLength THEN <<sentence>> ELSE <<>>)
                 \o CleanSentences(Tail(sentences))

_split_sentences(text) == CleanSentences(ReSplit(text, 1, 1))

(***************************************************************************)
(* Dictionaries.  A Python dict keeps insertion order, and the code        *)
(* iterates over it: a dict is the sequence of its items, each             *)
(* [key |-> k, value |-> v], in insertion order.                           *)
(***************************************************************************)
Keys(d) == [i \in 1..Len(d) |-> d[i].key]

HasKey(d, k) == \E i \in 1..Len(d) : d[i].key = k

Get(d, k) == d[CHOOSE i \in 1..Len(d) : d[i].key = k].value

\* d[k] = v
Put(d, k, v) ==
    IF HasKey(d, k)
    THEN [i \in 1..Len(d) |-> IF d[i].key = k THEN [key |-> k, value |-> v] ELSE d[i]]
    ELSE Append(d, [key |-> k, value |-> v])

\* max(d.keys(), key=lambda k: score(d[k])): the first key of the highest score
RECURSIVE MaxKey(_, _, _)
MaxKey(d, i, best) ==
    IF i > Len(d) THEN d[best].key
    ELSE MaxKey(d, i + 1, IF d[i].value > d[best].value THEN i ELSE best)

Max(S) == CHOOSE x \in S : \A y \in S : y <= x

Min(S) == CHOOSE x \in S : \A y \in S : x <= y

RECURSIVE Sum(_)
Sum(seq) == IF seq = <<>> THEN 0 ELSE Head(seq) + Sum(Tail(seq))

Sign(x) == IF x > 0 THEN 1 ELSE IF x < 0 THEN -1 ELSE 0

(***************************************************************************)
(* Floats.  A Python float the program handles is a double within a few    *)
(* units in the last place of a short decimal: <<n, e>> is the double      *)
(* nearest n/1000, plus e * 2^-63.  A literal of the code or of a request  *)
(* is <<n, 0>>.  Every double of magnitude 2^-11 or more is a multiple of  *)
(* 2^-63, so e is an integer, and the order of two floats is the order of  *)
(* their thousandths, then of their errors.                                *)
(***************************************************************************)
Decimal(n) == <<n, 0>>

Less(x, y) == x[1] < y[1] \/ (x[1] = y[1] /\ x[2] < y[2])

MantissaBits == 52

ErrorBits == 63

RECURSIVE Pow2(_)
Pow2(k) == IF k = 0 THEN 1 ELSE 2 * Pow2(k - 1)

\* (x * 2^k) % m, eight binary places at a time
RECURSIVE ShiftMod(_, _, _)
ShiftMod(x, k, m) ==
    IF k = 0 THEN x % m
    ELSE IF k >= 8 THEN ShiftMod((256 * x) % m, k - 8, m)
    ELSE ShiftMod((2 * x) % m, k - 1, m)

\* The binary exponent of n/d: the e with 2^e <= n/d < 2^(e+1), for n, d > 0.
RECURSIVE ExponentFrom(_, _, _)
ExponentFrom(n, d, e) ==
    IF e >= 0
    THEN IF d * Pow2(e + 1) <= n THEN ExponentFrom(n, d, e + 1) ELSE e
    ELSE IF n * Pow2(-e) < d THEN ExponentFrom(n, d, e - 1) ELSE e

Exponent(n, d) == IF n >= d THEN ExponentFrom(n, d, 0) ELSE ExponentFrom(n, d, -1)

IsPowerOf2(n, d, e) == IF e >= 0 THEN n = d * Pow2(e) ELSE n * Pow2(-e) = d

(***************************************************************************)
(* The rounding every float operation ends with (IEEE 754 binary64, to     *)
(* nearest, halves to even).  The exact result is                          *)
(*     n/d + (err + s) / (d * 2^63),  n > 0,                               *)
(* with s of the sign of sticky and 0 <= |s| < 1; the double nearest to it *)
(* is n/d + RoundPositive(n, d, err, sticky) / (d * 2^63).                 *)
(***************************************************************************)
\* The binary exponent of the exact result: that of n/d, or one less when
\* n/d is a power of 2 and the error is below it.
Binade(n, d, err, sticky, e) ==
    IF IsPowerOf2(n, d, e) /\ (err < 0 \/ (err = 0 /\ sticky < 0)) THEN e - 1 ELSE e

\* The exact result lies part/space of the way from a double to the next,
\* whole doubles above the double below n/d, whose mantissa is odd iff odd = 1:
\* the number of doubles to go up from the double below n/d.
Nearest(space, whole, part, odd, sticky) ==
    IF 2 * part < space THEN whole
    ELSE IF 2 * part > space THEN whole + 1
    ELSE IF sticky > 0 THEN whole + 1
    ELSE IF sticky < 0 THEN whole
    ELSE whole + ((odd + whole) % 2)

\* above: the distance of the exact result from the double below n/d.
RoundFrom(space, below, above, odd, sticky) ==
    Nearest(space, above \div space, above % space, odd, sticky) * space - below

\* The doubles around n/d are grain * 2^-63 apart; n/d lies (position % d)/d of
\* that above one of them.
RoundOnGrid(d, err, sticky, grain, position) ==
    RoundFrom(d * grain, (position % d) * grain, (position % d) * grain + err,
              position \div d, sticky)

RoundInBinade(n, d, err, sticky, e) ==
    RoundOnGrid(d, err, sticky, Pow2(ErrorBits - MantissaBits + e),
                ShiftMod(n, MantissaBits - e, 2 * d))

RoundPositive(n, d, err, sticky) ==
    RoundInBinade(n, d, err, sticky, Binade(n, d, err, sticky, Exponent(n, d)))

\* The same for any sign; a result of magnitude below 2^-11 (n = 0) is a
\* difference of two nearby doubles, which is exact.
RoundToDouble(n, d, err, sticky) ==
    IF n = 0 THEN err
    ELSE IF n > 0 THEN RoundPositive(n, d, err, sticky)
    ELSE -RoundPositive(-n, d, -err, -sticky)

\* The error of the float x from the decimal x[1]/1000, in units of 2^-63/1000.
AbsoluteError(x) == 1000 * x[2] + RoundToDouble(x[1], 1000, 0, 0)

\* n/d lies halfway between two whole numbers (d > 0)
IsHalf(n, d) == 2 * (n % d) = d

\* round(x, ndigits), in units of the last digit kept, of the double x that
\* is n/d units but for a float error of the sign of error: the nearest whole
\* number; halfway, the side the float error is on and, when the double is
\* exactly halfway, the even neighbour.
round(n, d, error) ==
    LET q == n \div d
        r == n - q * d
    IN  IF 2 * r < d THEN q
        ELSE IF 2 * r > d THEN q + 1
        ELSE IF error < 0 THEN q
        ELSE IF error > 0 THEN q + 1
        ELSE IF q % 2 = 0 THEN q ELSE q + 1

(***************************************************************************)
(* The embedding provider.  model.encode either returns a vector or        *)
(* raises; sklearn's cosine_similarity normalises both vectors (a zero     *)
(* vector stays zero) and returns their dot product, all in doubles:       *)
(*     (u[1]/5) * (v[1]/5) + (u[2]/5) * (v[2]/5).                          *)
(***************************************************************************)
ProviderError == [ok |-> FALSE, vec |-> <<0, 0>>]

Encoded(v) == [ok |-> TRUE, vec |-> v]

Dot(u, v) == u[1] * v[1] + u[2] * v[2]

\* Norm of a vector of the embedding space: 5, or 0 for the zero vector.
Norm(u) == IF Dot(u, u) = 0 THEN 0 ELSE 5

\* The double a / 5 is a/5 + NormalizedError(a) / (5 * 2^63).
NormalizedError(a) == RoundToDouble(a, 5, 0, 0)

\* The double (a/5) * (b/5) is a*b/25 + ProductError(a, b) / (25 * 2^63).
ProductError(a, b) ==
    LET ea == NormalizedError(a)
        eb == NormalizedError(b)
    IN  RoundToDouble(a * b, 25, a * eb + b * ea, Sign(ea) * Sign(eb))

\* The computed dot product of the normalised vectors is
\* Dot(u, v)/25 + DotError(u, v) / (25 * 2^63).
DotError(u, v) ==
    RoundToDouble(Dot(u, v), 25, ProductError(u[1], v[1]) + ProductError(u[2], v[2]), 0)

cosine_similarity(u, v) ==
    IF Norm(u) = 0 \/ Norm(v) = 0 THEN Decimal(0)
    ELSE LET n == (1000 * Dot(u, v)) \div (Norm(u) * Norm(v))
         IN  <<n, (40 * DotError(u, v) - RoundToDouble(n, 1000, 0, 0)) \div 1000>>

(***************************************************************************)
(* _classify_sentence: outcome is what model.encode([sentence]) does.      *)
(***************************************************************************)
\* for category, anchor_embedding in self.anchor_embeddings.items():
\*     similarities[category] = cosine_similarity(...)
RECURSIVE Similarities(_, _)
Similarities(anchors, sentence_embedding) ==
    IF anchors = <<>> THEN <<>>
    ELSE <<[key |-> Head(anchors).key,
            value |-> cosine_similarity(sentence_embedding, Head(anchors).value)]>>
         \o Similarities(Tail(anchors), sentence_embedding)

\* max(similarities.keys(), key=lambda k: similarities[k]): the first key of
\* the greatest float
RECURSIVE MaxFloatKey(_, _, _)
MaxFloatKey(d, i, best) ==
    IF i > Len(d) THEN d[best].key
    ELSE MaxFloatKey(d, i + 1, IF Less(d[best].value, d[i].value) THEN i ELSE best)

\* A plausible bug: a score equal to the threshold counts as below it.
ApplyThresholdStrict(best_category, best_score, threshold) ==
    IF ~Less(Decimal(threshold), best_score) THEN <<"Hunch", best_score>>
    ELSE <<best_category, best_score>>

ApplyThreshold(best_category, best_score, threshold) ==
    IF Less(best_score, Decimal(threshold)) THEN <<"Hunch", best_score>>
    ELSE <<best_category, best_score>>

\* A plausible bug: the provider failure returns the no-anchor default.
ProviderFailureAsNoAnchor(outcome) == <<"Hunch", Decimal(NoAnchorConfidence)>>

ProviderFailure(outcome) == <<"Hunch", Decimal(ProviderErrorConfidence)>>

_classify_sentence(m, anchors, outcome, threshold) ==
    IF m = "None" \/ anchors = <<>> THEN <<"Hunch", Decimal(NoAnchorConfidence)>>
    ELSE IF ~outcome.ok THEN ProviderFailure(outcome)
    ELSE LET similarities == Similarities(anchors, outcome.vec)
             best_category == MaxFloatKey(similarities, 1, 1)
             best_score == Get(similarities, best_category)
         IN  ApplyThreshold(best_category, best_score, threshold)

(***************************************************************************)
(* _generate_analytics                                                     *)
(***************************************************************************)
Confidences(items) == [i \in 1..Len(items) |-> items[i].confidence]

Range(seq) == {seq[i] : i \in 1..Len(seq)}

\* The thousandths of a sequence of floats.
Thousandths(floats) == [i \in 1..Len(floats) |-> floats[i][1]]

\* sum(confidences) adds the floats in order, from the integer 0.  Before
\* Python 3.12 every addition is rounded: after the first i floats the sum is
\* the decimal sum plus SumError(confidences, i) / (1000 * 2^63).
RECURSIVE SumError(_, _)
SumError(floats, i) ==
    IF i = 1 THEN AbsoluteError(floats[1])
    ELSE RoundToDouble(Sum(Thousandths(SubSeq(floats, 1, i))), 1000,
                       SumError(floats, i - 1) + AbsoluteError(floats[i]), 0)

\* From Python 3.12 on sum() keeps, next to the rounded sum, what the
\* roundings lost (c += (f_result - t) + x, which is exact), and adds it to
\* the sum at the end.
RECURSIVE Compensation(_, _)
Compensation(floats, i) ==
    IF i = 1 THEN 0
    ELSE Compensation(floats, i - 1)
             + (SumError(floats, i - 1) + AbsoluteError(floats[i]) - SumError(floats, i))

CompensatedSumError(floats) ==
    RoundToDouble(Sum(Thousandths(floats)), 1000,
                  SumError(floats, Len(floats)) + Compensation(floats, Len(floats)), 0)

CompensatedSumVersion == 12

\* The error of the double sum(confidences).
sum(floats, python) ==
    IF python >= CompensatedSumVersion THEN CompensatedSumError(floats)
    ELSE SumError(floats, Len(floats))

\* The error of the double sum(confidences) / len(confidences).
AverageError(floats, python) ==
    RoundToDouble(Sum(Thousandths(floats)), 1000 * Len(floats), sum(floats, python), 0)

\* round(sum(confidences) / len(confidences), 3), in thousandths
Average(floats, python) ==
    LET total == Sum(Thousandths(floats))
    IN  round(total, Len(floats),
              IF IsHalf(total, Len(floats)) THEN AverageError(floats, python) ELSE 0)

\* round(max(confidences), 3) and round(min(confidences), 3): the thousandths
\* of the greatest and of the least float.
ConfidenceStats(items, python) ==
    IF items # <<>>
    THEN LET confidences == Confidences(items)
         IN  [average |-> Average(confidences, python),
              max |-> Max(Range(Thousandths(confidences))),
              min |-> Min(Range(Thousandths(confidences)))]
    ELSE [average |-> 0, max |-> 0, min |-> 0]

TotalItems(routed_content) ==
    Sum([i \in 1..Len(routed_content) |-> Len(routed_content[i].value)])

\* The error of the double count / total_items * 100: the quotient is
\* rounded, then its product by 100.
PercentageError(count, total_items) ==
    RoundToDouble(100 * count, total_items,
                  100 * RoundToDouble(count, total_items, 0, 0), 0)

\* round(count / total_items * 100, 1), in tenths of a percent
Percentage(count, total_items) ==
    round(1000 * count, total_items,
          IF IsHalf(1000 * count, total_items)
          THEN PercentageError(count, total_items) ELSE 0)

DistributionOf(routed_content, total_items) ==
    [i \in 1..Len(routed_content) |->
        [key |-> routed_content[i].key,
         value |-> Len(routed_content[i].value),
         percentage |-> Percentage(Len(routed_content[i].value), total_items)]]

DominantCategory(distribution) ==
    IF distribution # <<>> THEN MaxKey(distribution, 1, 1) ELSE "Hunch"

HighConfidenceCount(routed_content) ==
    Sum([i \in 1..Len(routed_content) |->
            Cardinality({j \in 1..Len(routed_content[i].value) :
                            Less(Decimal(HighConfidence),
                                 routed_content[i].value[j].confidence)})])

_generate_analytics(routed_content, python) ==
    LET total_items == TotalItems(routed_content)
        distribution == DistributionOf(routed_content, total_items)
    IN  IF total_items = 0
        THEN [error |-> "No content to analyze", total_sentences |-> 0]
        ELSE [distribution |-> distribution,
              confidence_stats |->
                  [i \in 1..Len(routed_content) |->
                      [key |-> routed_content[i].key,
                       value |-> ConfidenceStats(routed_content[i].value, python)]],
              dominant_category |-> DominantCategory(distribution),
              total_sentences |-> total_items,
              high_confidence_items |-> HighConfidenceCount(routed_content),
              processing_method |-> "python_sentence_transformer"]

(***************************************************************************)
(* _fallback_classification                                                *)
(***************************************************************************)
WisdomKeywords ==
    {Str("data"), Str("research"), Str("study"), Str("evidence"),
     Str("statistics"), Str("shows"), Str("analysis")}

NudgeKeywords ==
    {Str("should"), Str("recommend"), Str("suggest"), Str("implement"),
     Str("action"), Str("do"), Str("try")}

SpellKeywords ==
    {Str("imagine"), Str("creative"), Str("innovative"), Str("magical"),
     Str("surprising"), Str("extraordinary")}

\* A plausible bug: the Nudge keywords are tested before the Wisdom keywords.
KeywordClassifyNudgeFirst(sentence, python) ==
    LET lower_sentence == lower(sentence, python)
    IN  IF AnyWordIn(NudgeKeywords, lower_sentence) THEN <<"Nudge", Decimal(NudgeConfidence)>>
        ELSE IF AnyWordIn(WisdomKeywords, lower_sentence) THEN <<"Wisdom", Decimal(WisdomConfidence)>>
        ELSE IF AnyWordIn(SpellKeywords, lower_sentence) THEN <<"Spell", Decimal(SpellConfidence)>>
        ELSE <<"Hunch", Decimal(HunchConfidence)>>

KeywordClassify(sentence, python) ==
    LET lower_sentence == lower(sentence, python)
    IN  IF AnyWordIn(WisdomKeywords, lower_sentence) THEN <<"Wisdom", Decimal(WisdomConfidence)>>
        ELSE IF AnyWordIn(NudgeKeywords, lower_sentence) THEN <<"Nudge", Decimal(NudgeConfidence)>>
        ELSE IF AnyWordIn(SpellKeywords, lower_sentence) THEN <<"Spell", Decimal(SpellConfidence)>>
        ELSE <<"Hunch", Decimal(HunchConfidence)>>

Item(sentence, confidence, method) ==
    [text |-> strip(sentence), confidence |-> confidence, processing_method |-> method]

\* routed_content[category].append(item), of both loops.
\* A plausible bug: the item is put in front (insert(0, item)).
AppendItemInFront(items, item) == <<item>> \o items

AppendItem(items, item) == Append(items, item)

EmptyRouting == [i \in 1..Len(Categories) |-> [key |-> Categories[i], value |-> <<>>]]

\* The loop of _fallback_classification, from sentence i on.
RECURSIVE FallbackLoop(_, _, _, _)
FallbackLoop(sentences, i, routed_content, python) ==
    IF i > Len(sentences) THEN routed_content
    ELSE IF Len(strip(sentences[i])) < MinLength
    THEN FallbackLoop(sentences, i + 1, routed_content, python)
    ELSE LET c == KeywordClassify(sentences[i], python)
         IN  FallbackLoop(sentences, i + 1,
                 Put(routed_content, c[1],
                     AppendItem(Get(routed_content, c[1]),
                                Item(sentences[i], c[2], "keyword_fallback"))),
                 python)

_fallback_classification(text, python) ==
    LET routed_content == FallbackLoop(_split_sentences(text), 1, EmptyRouting, python)
    IN  [routed_content |-> routed_content,
         analytics |-> _generate_analytics(routed_content, python)]

(***************************************************************************)
(* classify_text                                                           *)
(***************************************************************************)
NoThreshold == <<>>

\* confidence_threshold or self.confidence_threshold: None and 0.0 are falsy.
\* A threshold argument is <<>> for None and <<t>> for the number t.
EffectiveThreshold(ct, self_threshold) ==
    IF ct = NoThreshold \/ ct[1] = 0 THEN self_threshold ELSE ct[1]

\* list.sort(key=confidence, reverse=True): stable, descending.
RECURSIVE InsertSorted(_, _)
InsertSorted(sorted, item) ==
    IF sorted = <<>> THEN <<item>>
    ELSE IF ~Less(Head(sorted).confidence, item.confidence)
    THEN <<Head(sorted)>> \o InsertSorted(Tail(sorted), item)
    ELSE <<item>> \o sorted

RECURSIVE SortByConfidence(_)
SortByConfidence(items) ==
    IF items = <<>> THEN <<>>
    ELSE InsertSorted(SortByConfidence(SubSeq(items, 1, Len(items) - 1)),
                      items[Len(items)])

SortEach(routed_content) ==
    [i \in 1..Len(routed_content) |->
        [key |-> routed_content[i].key,
         value |-> SortByConfidence(routed_content[i].value)]]

\* One turn of the loop of classify_text: the sentence is classified and
\* appended to its category; outcome is what the provider does when the
\* sentence is encoded.
ClassifyNext(sentence, routed_content, m, anchors, outcome, threshold) ==
    IF Len(strip(sentence)) < MinLength THEN routed_content
    ELSE LET c == _classify_sentence(m, anchors, outcome, threshold)
             old == IF HasKey(routed_content, c[1]) THEN Get(routed_content, c[1]) ELSE <<>>
         IN  Put(routed_content, c[1],
                 AppendItem(old, Item(sentence, c[2], "sentence_transformer")))

\* The loop of classify_text, from sentence i on.
RECURSIVE ClassifyLoop(_, _, _, _, _, _, _)
ClassifyLoop(sentences, i, routed_content, m, anchors, outcomes, threshold) ==
    IF i > Len(sentences) THEN routed_content
    ELSE ClassifyLoop(sentences, i + 1,
                      ClassifyNext(sentences[i], routed_content, m, anchors,
                                   outcomes[i], threshold),
                      m, anchors, outcomes, threshold)

\* What classify_text does after the loop: each list is sorted, the
\* analytics are computed on the sorted lists, and the result is returned.
SortAndReport(routed_content, python) ==
    LET sorted == SortEach(routed_content)
    IN  [routed_content |-> sorted, analytics |-> _generate_analytics(sorted, python)]

classify_text(text, ct, m, anchors, self_threshold, outcomes, python) ==
    IF m = "None" THEN _fallback_classification(text, python)
    ELSE SortAndReport(ClassifyLoop(_split_sentences(text), 1, <<>>, m, anchors, outcomes,
                                    EffectiveThreshold(ct, self_threshold)),
                       python)

(***************************************************************************)
(* Inputs.                                                                 *)
(***************************************************************************)
\* The interpreters: Python 3.8 or later (check_python_version); here the
\* last one whose sum() adds floats one by one and the first one whose
\* sum() compensates.
PythonVersions == {11, 12}

\* All concatenations of at most n strings of pieces.
RECURSIVE Concatenations(_, _)
Concatenations(pieces, n) ==
    IF n = 0 THEN {<<>>}
    ELSE LET shorter == Concatenations(pieces, n - 1)
         IN  shorter \cup {t \o p : t \in shorter, p \in pieces}

\* Requests of the pipeline: whole sentences, one of them below the length floor.
SentencePieces ==
    {Str("The data shows growth. "), Str("Imagine a magical day! "), Str("Too short. ")}

RequestTexts == Concatenations(SentencePieces, MaxSentences)

\* Requests of the calls that run interleaved: two sentences that the
\* keyword classifier puts in one category, and a threshold of their own.
CallTexts == {Str("The data shows growth. We should study this. ")}

CallThresholds == {<<700>>}

\* Texts of the segmenter and the keyword classifier: words of the three
\* keyword sets and of none (one of them begins with a capital E acute,
\* U+00C9), separators with whitespace (a space, a carriage return) and
\* without.
FragmentPieces ==
    {Str("data"), Str("Should"), Str("imagine"), <<201>> \o Str("tat"), Str("perhaps later"),
     Str(" "), Str(". "), Str("!?\r "), Str(".")}

FragmentTexts == Concatenations(FragmentPieces, MaxPieces)

\* What model.encode(anchor_texts) may return: one embedding per category.
Catalog(hunch, wisdom, nudge, spell) ==
    <<[key |-> "Hunch", value |-> hunch], [key |-> "Wisdom", value |-> wisdom],
      [key |-> "Nudge", value |-> nudge], [key |-> "Spell", value |-> spell]>>

AnchorCatalogs ==
    {Catalog(<<0, -5>>, <<3, 4>>, <<0, -5>>, <<-4, 3>>),
     Catalog(<<3, -4>>, <<4, 3>>, <<5, 0>>, <<5, 0>>)}

AnchorEncodingError == [ok |-> FALSE, embeddings |-> <<>>]

AnchorOutcomes == {[ok |-> TRUE, embeddings |-> c] : c \in AnchorCatalogs} \cup {AnchorEncodingError}

\* What model.encode([sentence]) may return: the loaded model is a function
\* of the sentence.
Encoder(data, imagine, study) ==
    (Str("The data shows growth") :> data) @@ (Str("Imagine a magical day") :> imagine)
        @@ (Str("We should study this") :> study)

Encoders ==
    {Encoder(<<5, 0>>, <<-4, 3>>, <<5, 0>>), Encoder(<<-4, 3>>, <<5, 0>>, <<5, 0>>),
     Encoder(<<5, 0>>, <<5, 0>>, <<-4, 3>>), Encoder(<<-4, 3>>, <<-4, 3>>, <<5, 0>>)}

\* What model.encode([sentence]) does: it returns the embedding, or raises.
Encode(sentence, raised) == IF raised THEN ProviderError ELSE Encoded(encoder[sentence])

DirectThresholds == {NoThreshold, <<600>>, <<700>>}

HttpThresholds == {<<0>>, <<-280>>, <<1500>>}

\* The number of model.encode([sentence]) calls classify_text(text) makes.
ProviderCalls(text) ==
    IF model = "None" \/ anchor_embeddings = <<>> THEN 0 ELSE Len(_split_sentences(text))

\* What the provider does in the calls of classify_text(text), one outcome
\* per call: it raises in the calls of failed.
OutcomesOf(sentences, failed) ==
    [i \in 1..Len(sentences) |-> Encode(sentences[i], i \in failed)]

Outcomes(text) ==
    IF ProviderCalls(text) = 0 THEN {<<>>}
    ELSE {OutcomesOf(_split_sentences(text), failed) :
              failed \in SUBSET (1..ProviderCalls(text))}

(***************************************************************************)
(* The state machine.                                                      *)
(***************************************************************************)
Idle == [op |-> "none"]

NoResponse == [status |-> "none"]

Init ==
    /\ version \in PythonVersions
    /\ HAS_ML \in BOOLEAN
    /\ encoder \in Encoders
    /\ model = "None"
    /\ anchor_embeddings = <<>>
    /\ confidence_threshold = DefaultThreshold
    /\ init_calls = 0
    /\ init_result = "none"
    /\ anchor_builds = 0
    /\ request = Idle
    /\ response = NoResponse
    /\ calls = {}
    /\ log = {}

\* initialize().  constructed: SentenceTransformer(self.model_name) returns;
\* encoded: what model.encode(anchor_texts) does, return a catalog or raise.
Initialize(constructed, encoded) ==
    /\ request = Idle
    /\ init_calls < MaxInitCalls
    /\ init_calls' = init_calls + 1
    /\ request' = [op |-> "initialize"]
    /\ IF ~HAS_ML
       THEN /\ init_result' = "False"
            /\ UNCHANGED <<model, anchor_embeddings, anchor_builds>>
       ELSE IF ~constructed
       THEN /\ init_result' = "False"
            /\ UNCHANGED <<model, anchor_embeddings, anchor_builds>>
       ELSE /\ model' = "SentenceTransformer"
            /\ IF ~encoded.ok
               THEN /\ init_result' = "False"
                    /\ UNCHANGED <<anchor_embeddings, anchor_builds>>
               ELSE /\ init_result' = "True"
                    /\ anchor_embeddings' = encoded.embeddings
                    /\ anchor_builds' = anchor_builds + 1
    /\ response' = [status |-> "returned", value |-> init_result']
    /\ UNCHANGED <<version, HAS_ML, encoder, confidence_threshold, calls, log>>

\* await semantic_brain.classify_text(text, confidence_threshold)
ClassifyText(text, ct, outcomes) ==
    /\ request = Idle
    /\ request' = [op |-> "classify_text", text |-> text,
                   confidence_threshold |-> ct, outcomes |-> outcomes]
    /\ response' = [status |-> "returned",
                    body |-> classify_text(text, ct, model, anchor_embeddings,
                                           confidence_threshold, outcomes, version)]
    /\ UNCHANGED <<version, HAS_ML, encoder, model, anchor_embeddings, confidence_threshold,
                   init_calls, init_result, anchor_builds, calls, log>>

\* POST /process: classify_text raises nothing, so the handler answers 200
\* with the result.
ProcessContent(text, ct, outcomes) ==
    /\ request = Idle
    /\ request' = [op |-> "process_content", text |-> text,
                   confidence_threshold |-> ct, outcomes |-> outcomes]
    /\ response' = [status |-> "200",
                    body |-> classify_text(text, ct, model, anchor_embeddings,
                                           confidence_threshold, outcomes, version)]
    /\ UNCHANGED <<version, HAS_ML, encoder, model, anchor_embeddings, confidence_threshold,
                   init_calls, init_result, anchor_builds, calls, log>>

\* A direct call of the segmenter.
SplitSentences(text) ==
    /\ request = Idle
    /\ request' = [op |-> "_split_sentences", text |-> text]
    /\ response' = [status |-> "returned", body |-> _split_sentences(text)]
    /\ UNCHANGED <<version, HAS_ML, encoder, model, anchor_embeddings, confidence_threshold,
                   init_calls, init_result, anchor_builds, calls, log>>

\* The caller has its answer; the next call can be made.
Return ==
    /\ request # Idle
    /\ request' = Idle
    /\ response' = NoResponse
    /\ UNCHANGED <<version, HAS_ML, encoder, model, anchor_embeddings, confidence_threshold,
                   init_calls, init_result, anchor_builds, calls, log>>

\* A call is made only when the previous one has returned (request = Idle is
\* the guard of every call; stated first, it spares enumerating the inputs).
Next ==
    \/ /\ request = Idle
       /\ \E constructed \in BOOLEAN, encoded \in AnchorOutcomes :
              Initialize(constructed, encoded)
    \/ /\ request = Idle
       /\ \E text \in RequestTexts, ct \in DirectThresholds :
              \E outcomes \in Outcomes(text) : ClassifyText(text, ct, outcomes)
    \/ /\ request = Idle
       /\ \E text \in RequestTexts, ct \in HttpThresholds :
              \E outcomes \in Outcomes(text) : ProcessContent(text, ct, outcomes)
    \/ Return

Spec == Init /\ [][Next]_vars

\* The segmenter and the keyword classifier on their own: a SemanticBrain
\* that was only constructed, or whose ML imports failed, has no model.
InitText == Init /\ HAS_ML = FALSE

NextText ==
    \/ /\ request = Idle
       /\ \E text \in FragmentTexts : SplitSentences(text)
    \/ /\ request = Idle
       /\ \E text \in FragmentTexts : ClassifyText(text, NoThreshold, <<>>)
    \/ Return

TextSpec == InitText /\ [][NextText]_vars

(***************************************************************************)
(* classify_text, from one await to the next.  A call in flight is a       *)
(* record of its arguments and local variables, suspended at the await of  *)
(* its sentence number next; id numbers the calls in the order they began, *)
(* before is the shared state the call found, and interleaved tells        *)
(* whether another call ran while this one was suspended.                  *)
(***************************************************************************)
\* The attributes of self.
Pipeline ==
    [model |-> model, anchor_embeddings |-> anchor_embeddings,
     confidence_threshold |-> confidence_threshold]

\* A call that returned, as the log keeps it.
Returned(id, text, ct, sentences, before, outcomes, interleaved, body) ==
    [id |-> id, text |-> text, confidence_threshold |-> ct, sentences |-> sentences,
     before |-> before, after |-> Pipeline, outcomes |-> outcomes,
     interleaved |-> interleaved, body |-> body]

\* The call that begins: its arguments, and its local variables at the
\* first await.
Suspended(id, text, ct) ==
    [id |-> id, text |-> text, confidence_threshold |-> ct, before |-> Pipeline,
     threshold |-> EffectiveThreshold(ct, confidence_threshold),
     sentences |-> _split_sentences(text), next |-> 1, routed_content |-> <<>>,
     outcomes |-> <<>>, interleaved |-> FALSE]

\* classify_text up to its first await, or to its return when it has none:
\* without a model, the fallback classification; with no sentence, the
\* empty result.
Begin(id, text, ct) ==
    IF model = "None"
    THEN /\ log' = log \cup {Returned(id, text, ct, _split_sentences(text), Pipeline, <<>>,
                                       FALSE, _fallback_classification(text, version))}
         /\ UNCHANGED calls
    ELSE IF _split_sentences(text) = <<>>
    THEN /\ log' = log \cup {Returned(id, text, ct, <<>>, Pipeline, <<>>, FALSE,
                                       SortAndReport(<<>>, version))}
         /\ UNCHANGED calls
    ELSE /\ calls' = calls \cup {Suspended(id, text, ct)}
         /\ UNCHANGED log

\* A plausible bug: the threshold of the request is stored on the shared
\* object (self.confidence_threshold = confidence_threshold or
\* self.confidence_threshold).
BeginClassifyTextStoringThreshold(text, ct) ==
    /\ request = Idle
    /\ Cardinality(calls) + Cardinality(log) < MaxCalls
    /\ confidence_threshold' = EffectiveThreshold(ct, confidence_threshold)
    /\ Begin(Cardinality(calls) + Cardinality(log) + 1, text, ct)
    /\ UNCHANGED <<version, HAS_ML, encoder, model, anchor_embeddings,
                   init_calls, init_result, anchor_builds, request, response>>

\* A classify_text call begins.
BeginClassifyText(text, ct) ==
    /\ request = Idle
    /\ Cardinality(calls) + Cardinality(log) < MaxCalls
    /\ Begin(Cardinality(calls) + Cardinality(log) + 1, text, ct)
    /\ UNCHANGED <<version, HAS_ML, encoder, model, anchor_embeddings, confidence_threshold,
                   init_calls, init_result, anchor_builds, request, response>>

\* classify_text awaits _classify_sentence for a sentence of 10 characters
\* or more, and _classify_sentence calls model.encode([sentence]) when
\* there are a model and anchors.
ProviderCalled(sentence) ==
    Len(strip(sentence)) >= MinLength /\ model # "None" /\ anchor_embeddings # <<>>

\* The calls other than c, which ran while they were suspended.
Others(c) == {[d EXCEPT !.interleaved = TRUE] : d \in calls \ {c}}

\* Call c resumes from the await of its next sentence, where model.encode
\* raised or returned, and runs to its next await or, after its last
\* sentence, to its return.
ClassifySentence(c, raised) ==
    /\ c \in calls
    /\ raised => ProviderCalled(c.sentences[c.next])
    /\ LET sentence == c.sentences[c.next]
           outcome == Encode(sentence, raised)
           routed_content == ClassifyNext(sentence, c.routed_content, model,
                                          anchor_embeddings, outcome, c.threshold)
           outcomes == IF ProviderCalled(sentence) THEN Append(c.outcomes, outcome)
                       ELSE c.outcomes
       IN  IF c.next < Len(c.sentences)
           THEN /\ calls' = {[c EXCEPT !.next = c.next + 1,
                                       !.routed_content = routed_content,
                                       !.outcomes = outcomes]} \cup Others(c)
                /\ UNCHANGED log
           ELSE /\ calls' = Others(c)
                /\ log' = log \cup {Returned(c.id, c.text, c.confidence_threshold,
                                              c.sentences, c.before, outcomes, c.interleaved,
                                              SortAndReport(routed_content, version))}
    /\ UNCHANGED <<version, HAS_ML, encoder, model, anchor_embeddings, confidence_threshold,
                   init_calls, init_result, anchor_builds, request, response>>

\* The interleaved calls: the ML imports succeeded, and the model embeds
\* the two sentences of the requests differently.
InitConcurrent ==
    /\ Init
    /\ HAS_ML = TRUE
    /\ encoder = Encoder(<<-4, 3>>, <<5, 0>>, <<5, 0>>)

\* initialize() is called when no classify_text is in flight (the server
\* awaits it at startup, before it serves requests), and classify_text
\* after an initialize() has returned; the calls in flight take their turns
\* in any order.
NextConcurrent ==
    \/ /\ request = Idle
       /\ calls = {}
       /\ \E constructed \in BOOLEAN, encoded \in AnchorOutcomes :
              Initialize(constructed, encoded)
    \/ Return
    \/ /\ init_calls > 0
       /\ \E text \in CallTexts, ct \in CallThresholds : BeginClassifyText(text, ct)
    \/ \E c \in calls, raised \in BOOLEAN : ClassifySentence(c, raised)

ConcurrentSpec == InitConcurrent /\ [][NextConcurrent]_vars

(***************************************************************************)
(* Vocabulary of the properties.                                           *)
(***************************************************************************)
IsClassification == request.op \in {"classify_text", "process_content"}

SimilarityMode == model # "None" /\ anchor_embeddings # <<>>

\* The sentences the answered request was segmented into.
Segmented == _split_sentences(request.text)

\* The items routed to a category in the answer (none if the key is absent).
Routed(category) ==
    IF HasKey(response.body.routed_content, category)
    THEN Get(response.body.routed_content, category)
    ELSE <<>>

AllItems == UNION {Range(Routed(c)) : c \in CategorySet}

HasItem(category, text, confidence) ==
    \E item \in Range(Routed(category)) :
        item.text = text /\ item.confidence = confidence

\* The threshold classify_text hands to _classify_sentence for the request.
PassedThreshold == EffectiveThreshold(request.confidence_threshold, confidence_threshold)

SimilarityTo(i, category) ==
    cosine_similarity(request.outcomes[i].vec, Get(anchor_embeddings, category))

MaxFloat(S) == CHOOSE x \in S : \A y \in S : ~Less(x, y)

BestSimilarity(i) == MaxFloat({SimilarityTo(i, c) : c \in CategorySet})

BestCategories(i) == {c \in CategorySet : SimilarityTo(i, c) = BestSimilarity(i)}

\* Sentence i is where the decision rule of the similarity classifier puts it.
PlacedBySimilarity(i) ==
    IF ~Less(BestSimilarity(i), Decimal(PassedThreshold))
    THEN \E c \in BestCategories(i) : HasItem(c, Segmented[i], BestSimilarity(i))
    ELSE HasItem("Hunch", Segmented[i], BestSimilarity(i))

(***************************************************************************)
(* C1.  After an initialize() that failed (it returned False), every       *)
(* classify_text classifies every sentence with the keyword fallback.      *)
(* Stated for a pipeline that was initialized once.                        *)
(***************************************************************************)
C1_FailedInitializeUsesFallback ==
    (init_calls = 1 /\ init_result = "False" /\ IsClassification)
        => \A item \in AllItems : item.processing_method = "keyword_fallback"

(***************************************************************************)
(* C2.  Whatever initialize() calls are made, the anchor catalog is built  *)
(* at most once: a later initialize() does not compute and store the       *)
(* anchor embeddings again.                                                *)
(***************************************************************************)
C2_CatalogBuiltAtMostOnce == anchor_builds <= 1

(***************************************************************************)
(* C3.  In similarity mode a sentence whose embedding was computed is      *)
(* routed to an anchor category of maximum cosine similarity s, with       *)
(* confidence s, when s >= threshold, and to Hunch with confidence s       *)
(* unchanged when s < threshold.                                           *)
(***************************************************************************)
C3_SimilarityDecisionRule ==
    (IsClassification /\ SimilarityMode)
        => \A i \in 1..Len(Segmented) :
               request.outcomes[i].ok => PlacedBySimilarity(i)

C3_Witness ==
    /\ IsClassification
    /\ SimilarityMode
    /\ PassedThreshold = 700
    /\ \E i \in 1..Len(Segmented) :
           /\ request.outcomes[i].ok
           /\ BestCategories(i) = {"Wisdom"}
           /\ BestSimilarity(i) = Decimal(600)
           /\ HasItem("Hunch", Segmented[i], Decimal(600))

(***************************************************************************)
(* C4.  In similarity mode a sentence whose embedding call fails is        *)
(* classified (Hunch, 0.3); the call still returns a result, which holds   *)
(* every segmented sentence, and the other sentences are classified as     *)
(* usual.                                                                  *)
(***************************************************************************)
C4_ProviderFailureDegradesOneSentence ==
    (IsClassification /\ SimilarityMode)
        => /\ response.status \in {"returned", "200"}
           /\ TotalItems(response.body.routed_content) = Len(Segmented)
           /\ \A i \in 1..Len(Segmented) :
                  IF request.outcomes[i].ok
                  THEN PlacedBySimilarity(i)
                  ELSE HasItem("Hunch", Segmented[i], Decimal(300))

C4_Witness ==
    /\ IsClassification
    /\ SimilarityMode
    /\ \E i, j \in 1..Len(Segmented) :
           /\ ~request.outcomes[i].ok
           /\ HasItem("Hunch", Segmented[i], Decimal(300))
           /\ request.outcomes[j].ok
           /\ HasItem("Wisdom", Segmented[j], Decimal(600))

(***************************************************************************)
(* C5.  In fallback mode a sentence gets the category of the first of the  *)
(* keyword sets Wisdom, Nudge, Spell of which it contains a keyword, with  *)
(* confidence 0.7, 0.6, 0.6, and Hunch with 0.4 if it contains none.       *)
(***************************************************************************)
KeywordPriority ==
    <<[category |-> "Wisdom", keywords |-> WisdomKeywords, confidence |-> 700],
      [category |-> "Nudge", keywords |-> NudgeKeywords, confidence |-> 600],
      [category |-> "Spell", keywords |-> SpellKeywords, confidence |-> 600]>>

MatchingSets(sentence) ==
    {k \in 1..Len(KeywordPriority) :
        \E word \in KeywordPriority[k].keywords : Contains(lower(sentence, version), word)}

PlacedByKeywords(sentence) ==
    IF MatchingSets(sentence) = {}
    THEN HasItem("Hunch", sentence, Decimal(400))
    ELSE LET first == KeywordPriority[Min(MatchingSets(sentence))]
         IN  HasItem(first.category, sentence, Decimal(first.confidence))

C5_KeywordPriority ==
    (request.op = "classify_text" /\ model = "None")
        => /\ TotalItems(response.body.routed_content) = Len(Segmented)
           /\ \A i \in 1..Len(Segmented) : PlacedByKeywords(Segmented[i])

C5_Witness ==
    /\ request.op = "classify_text"
    /\ model = "None"
    /\ \E i \in 1..Len(Segmented) :
           /\ {1, 2} \subseteq MatchingSets(Segmented[i])
           /\ HasItem("Wisdom", Segmented[i], Decimal(700))

(***************************************************************************)
(* C6.  A request whose confidence_threshold is outside (0, 1] gets no     *)
(* classification result: it fails with an error.                          *)
(***************************************************************************)
C6_InvalidThresholdIsRejected ==
    (/\ IsClassification
     /\ request.confidence_threshold # NoThreshold
     /\ (request.confidence_threshold[1] <= 0 \/ request.confidence_threshold[1] > 1000))
        => response.status \notin {"returned", "200"}

(***************************************************************************)
(* C7.  Every routed sentence has a confidence in [0, 1].  Stated for the  *)
(* requests the interface admits: no threshold, or one in (0, 1].          *)
(***************************************************************************)
C7_ConfidenceInUnitInterval ==
    (/\ IsClassification
     /\ (\/ request.confidence_threshold = NoThreshold
         \/ (request.confidence_threshold[1] > 0 /\ request.confidence_threshold[1] <= 1000)))
        => \A item \in AllItems :
               ~Less(item.confidence, Decimal(0)) /\ ~Less(Decimal(1000), item.confidence)

(***************************************************************************)
(* C8.  As claimed: whatever classify_text calls are made, one after the   *)
(* other or interleaved, the shared state (model, anchor embeddings,       *)
(* default threshold, hence the mode) is after the calls what it was       *)
(* before, and the result of a call depends only on its input and that     *)
(* state: two calls with the same input that found the same state return   *)
(* the same result.                                                        *)
(***************************************************************************)
SameInputAndState(c, d) ==
    /\ c.text = d.text
    /\ c.confidence_threshold = d.confidence_threshold
    /\ c.before = d.before

StateIsLeftAlone ==
    /\ \A c \in calls : c.before = Pipeline
    /\ \A c \in log : c.after = c.before

Failures(c) == {i \in 1..Len(c.outcomes) : ~c.outcomes[i].ok}

MeetsFloor(fragment) == Len(fragment) >= 10

TrimmedFragments(text) ==
    LET fragments == ReSplit(text, 1, 1)
    IN  [i \in 1..Len(fragments) |-> strip(fragments[i])]

C9_SegmenterKeepsFloor ==
    request.op = "_split_sentences"
        => response.body = SelectSeq(TrimmedFragments(request.text), MeetsFloor)

(***************************************************************************)
(* C10.  The dominant category is the first, in the order Hunch, Wisdom,   *)
(* Nudge, Spell, of the categories with the highest sentence count.        *)
(***************************************************************************)
CountOf(category) == Len(Routed(category))

HighestCount == Max({CountOf(c) : c \in CategorySet})

FirstOfHighestCount ==
    Categories[Min({k \in 1..Len(Categories) : CountOf(Categories[k]) = HighestCount})]

C10_DominantByEnumerationOrder ==
    (IsClassification /\ response.body.analytics.total_sentences > 0)
        => response.body.analytics.dominant_category = FirstOfHighestCount

(***************************************************************************)
(* C11.  In the result of every call, of either mode, each category's list *)
(* is in non-increasing order of confidence, and its sentences of equal    *)
(* confidence are in the order they have in the text.                      *)
(***************************************************************************)
\* The items routed to a category in the result of call c (none if the key
\* is absent).
RoutedBy(c, category) ==
    IF HasKey(c.body.routed_content, category)
    THEN Get(c.body.routed_content, category)
    ELSE <<>>

NonIncreasing(items) ==
    \A j \in 1..(Len(items) - 1) : ~Less(items[j].confidence, items[j + 1].confidence)

\* The texts of the items of confidence v, in the order of the list.
RECURSIVE TextsWithConfidence(_, _)
TextsWithConfidence(items, v) ==
    IF items = <<>> THEN <<>>
    ELSE (IF Head(items).confidence = v THEN <<Head(items).text>> ELSE <<>>)
             \o TextsWithConfidence(Tail(items), v)

\* The texts can be picked from the sentences from the i-th on, in order.
RECURSIVE InTextOrder(_, _, _)
InTextOrder(texts, sentences, i) ==
    IF texts = <<>> THEN TRUE
    ELSE IF i > Len(sentences) THEN FALSE
    ELSE IF Head(texts) = sentences[i] THEN InTextOrder(Tail(texts), sentences, i + 1)
    ELSE InTextOrder(texts, sentences, i + 1)

SortedWithTiesInOrder(items, sentences) ==
    /\ NonIncreasing(items)
    /\ \A j \in 1..Len(items) :
           InTextOrder(TextsWithConfidence(items, items[j].confidence), sentences, 1)

C11_SortedByConfidenceTiesInTextOrder ==
    \A c \in log :
        \A k \in CategorySet : SortedWithTiesInOrder(RoutedBy(c, k), c.sentences)

\* A fallback call put two different sentences in one category, in text
\* order.
FallbackKeptTextOrder(c) ==
    LET sentences == c.sentences
    IN  /\ c.before.model = "None"
        /\ Len(sentences) = 2
        /\ sentences[1] # sentences[2]
        /\ Len(RoutedBy(c, "Wisdom")) = 2
        /\ RoutedBy(c, "Wisdom")[1].text = sentences[1]
        /\ RoutedBy(c, "Wisdom")[2].text = sentences[2]
        /\ RoutedBy(c, "Wisdom")[1].processing_method = "keyword_fallback"

\* In a similarity call the sort moved a later sentence of higher
\* confidence to the front.
SortMovedToFront(c) ==
    LET sentences == c.sentences
    IN  /\ c.before.model # "None"
        /\ c.before.anchor_embeddings # <<>>
        /\ Len(sentences) = 2
        /\ sentences[1] # sentences[2]
        /\ Len(RoutedBy(c, "Hunch")) = 2
        /\ RoutedBy(c, "Hunch")[1].text = sentences[2]
        /\ RoutedBy(c, "Hunch")[2].text = sentences[1]
        /\ Less(RoutedBy(c, "Hunch")[2].confidence, RoutedBy(c, "Hunch")[1].confidence)

C11_Witness ==
    /\ \E c \in log : FallbackKeptTextOrder(c)
    /\ \E c \in log : SortMovedToFront(c)

(***************************************************************************)
(* C12.  When at least one sentence is classified, the analytics report    *)
(* has an entry for each of Hunch, Wisdom, Nudge and Spell: its count is   *)
(* the number of sentences of the category, the counts sum to              *)
(* total_sentences, and a category without sentences has count 0 and       *)
(* all-zero confidence stats.  Stated for the two modes: similarity (model *)
(* and anchors loaded) and fallback (no model).                            *)
(***************************************************************************)
ZeroStats == [average |-> 0, max |-> 0, min |-> 0]

ReportedCounts(distribution) == [i \in 1..Len(distribution) |-> distribution[i].value]

C12_EveryCategoryReported ==
    (/\ IsClassification
     /\ (SimilarityMode \/ model = "None")
     /\ response.body.analytics.total_sentences > 0)
        => LET analytics == response.body.analytics
           IN  /\ Sum(ReportedCounts(analytics.distribution)) = analytics.total_sentences
               /\ \A c \in CategorySet :
                      /\ HasKey(analytics.distribution, c)
                      /\ Get(analytics.distribution, c) = CountOf(c)
                      /\ HasKey(analytics.confidence_stats, c)
                      /\ CountOf(c) = 0 => Get(analytics.confidence_stats, c) = ZeroStats

====
